---- MODULE Spec2Model ----
(***************************************************************************)
(* Model of directory-archiver (src/src/main.rs, src/src/profile.rs).      *)
(*                                                                         *)
(* A path is the sequence of its components (std::path::Component): a      *)
(* root component ("/" for RootDir, "D:" for a drive prefix with its root) *)
(* followed by Normal components.  The empty sequence is the empty path.   *)
(* A run of `archive` is followed step by step through `pc`; the recursion *)
(* of compress_dir is the explicit call stack `stack`.                     *)
(***************************************************************************)
EXTENDS Integers, Sequences, FiniteSets, TLC

VARIABLES
    directories,  \* Profile.directories
    ignores,      \* Profile.ignores
    cwd,          \* the process's working directory (resolves relative paths)
    mtime,        \* modification time of every filesystem node, seconds since the Unix epoch
    now,          \* SystemTime::now(), seconds since the Unix epoch
    pc,           \* position in archive(): load, create, resolve, walk, done
    outFile,      \* the output file: untouched, created (truncated) or finished
    parent,       \* the shared parent path
    idx,          \* index of the next element of the `for dir in directories` loop
    stack,        \* call stack of compress_dir
    archive,      \* the entries the ZipWriter holds, in the order written; of each also
                  \* its source path, the walk and the call that wrote it (history)
    result,       \* what archive() returned: "" while running
    log,          \* the "Failed to ..." lines printed
    faults,       \* number of injected I/O failures so far
    failures,     \* history: every failed operation
    visits,       \* history: the calls of compress_dir / compress_file, in order
    stamps,       \* history: inputs and outcomes of to_last_modified_time
    abandoned     \* history: listed children left unprocessed by a failed walk

vars == <<directories, ignores, cwd, mtime, now, pc, outFile, parent, idx, stack,
          archive, result, log, faults, failures, visits, stamps, abandoned>>

----------------------------------------------------------------------------
(* Bounds *)

\* longest Profile.directories
MaxDirs == 2
\* most injected I/O failures in one run
MaxFaults == 1

----------------------------------------------------------------------------
(* std::path *)

RootComps == {"/", "D:"}

Rooted(p) == p # <<>> /\ p[1] \in RootComps

\* Path::file_name: None when the path is empty or ends in a root
HasFileName(p) == p # <<>> /\ p[Len(p)] \notin RootComps
FileName(p) == p[Len(p)]

Prefix(p, n) == SubSeq(p, 1, n)

\* Path::parent, iterated: a rooted path stops at its root, a relative one at ""
AncestorsNoRoot(p) ==
    LET lo == IF Rooted(p) THEN 2 ELSE 1
    IN  [i \in 1 .. (IF Len(p) >= lo THEN Len(p) - lo + 1 ELSE 0) |-> Prefix(p, Len(p) - i + 1)]

\* Path::ancestors: the path itself, then each parent
Ancestors(p) ==
    LET lo == IF Rooted(p) THEN 1 ELSE 0
    IN  [i \in 1 .. (Len(p) - lo + 1) |-> Prefix(p, Len(p) - i + 1)]

\* Path::starts_with: component-wise prefix
StartsWith(p, base) == Len(base) <= Len(p) /\ Prefix(p, Len(base)) = base

\* Path::strip_prefix that only keeps the base name
StripPrefixBaseName(p, base) ==
    IF StartsWith(p, base)
    THEN [ok |-> TRUE, path |-> IF Len(p) > Len(base) THEN <<p[Len(p)]>> ELSE <<>>]
    ELSE [ok |-> FALSE, path |-> <<>>]

\* Path::strip_prefix that strips nothing
StripPrefixKeepAll(p, base) ==
    IF StartsWith(p, base) THEN [ok |-> TRUE, path |-> p] ELSE [ok |-> FALSE, path |-> <<>>]

\* Path::strip_prefix
StripPrefix(p, base) ==
    IF StartsWith(p, base)
    THEN [ok |-> TRUE, path |-> SubSeq(p, Len(base) + 1, Len(p))]
    ELSE [ok |-> FALSE, path |-> <<>>]

\* a relative path is resolved against the working directory
Abs(p) == IF Rooted(p) THEN p ELSE cwd \o p

----------------------------------------------------------------------------
(* The shared parent path, main.rs 117-124 *)

\* path.ancestors().find(|ancestor| directories.iter().all(|p| p.starts_with(ancestor)))
FindAncestor(dirs, p) ==
    LET anc  == Ancestors(p)
        good == {i \in 1 .. Len(anc) : \A j \in 1 .. Len(dirs) : StartsWith(dirs[j], anc[i])}
    IN  IF good = {} THEN [found |-> FALSE, path |-> <<>>]
        ELSE [found |-> TRUE,
              path  |-> anc[CHOOSE i \in good : \A k \in good : i <= k]]

\* directories.iter().flat_map(..).next().ok_or(FailedToDetermineParentPath)
SharedParent(dirs) ==
    LET hits == {i \in 1 .. Len(dirs) : FindAncestor(dirs, dirs[i]).found}
    IN  IF hits = {} THEN [found |-> FALSE, path |-> <<>>]
        ELSE FindAncestor(dirs, dirs[CHOOSE i \in hits : \A k \in hits : i <= k])

----------------------------------------------------------------------------
(* Ignore patterns, main.rs 271-283 *)

\* OsStr::to_str: the characters of the names that occur
Chars ==
    [n \in {"a", "k", "s.t", "c", "l", "e", "x", "*.t"} |->
        CASE n = "s.t" -> <<"s", ".", "t">>
          [] n = "*.t" -> <<"*", ".", "t">>
          [] OTHER     -> <<n>>]

\* WildMatch::matches: `?` is any one character, `*` any run of characters
RECURSIVE Matches(_, _)
Matches(pat, s) ==
    IF pat = <<>> THEN s = <<>>
    ELSE IF Head(pat) = "*"
         THEN Matches(Tail(pat), s) \/ (s # <<>> /\ Matches(pat, Tail(s)))
         ELSE /\ s # <<>>
              /\ (Head(pat) = "?" \/ Head(pat) = Head(s))
              /\ Matches(Tail(pat), Tail(s))

\* is_ignored: the file name against every pattern; no file name, not ignored
IsIgnoredBy(igs, p) ==
    /\ HasFileName(p)
    /\ \E i \in 1 .. Len(igs) : Matches(Chars[igs[i]], Chars[FileName(p)])

is_ignored(p) == IsIgnoredBy(ignores, p)

----------------------------------------------------------------------------
(* The source tree the run reads (fs::read_dir, DirEntry::metadata, File::open) *)

Nodes == { <<"/">>, <<"/", "a">>, <<"/", "a", "k">>, <<"/", "a", "c">>, <<"/", "a", "l">>,
           <<"/", "a", "c", "s.t">>, <<"/", "a", "c", "k">>, <<"/", "e">>, <<"/", "e", "k">> }

\* Metadata::is_dir / is_file; "other" is a symlink or a special file
Kind(n) ==
    CASE n \in { <<"/", "a", "k">>, <<"/", "a", "c", "s.t">>, <<"/", "a", "c", "k">>,
                 <<"/", "e", "k">> } -> "file"
      [] n = <<"/", "a", "l">> -> "other"
      [] OTHER -> "dir"

\* the names fs::read_dir yields, in the order it yields them
Listing(n) ==
    CASE n = <<"/">>           -> <<"a", "e">>
      [] n = <<"/", "a">>      -> <<"k", "c", "l">>
      [] n = <<"/", "a", "c">> -> <<"s.t", "k">>
      [] n = <<"/", "e">>      -> <<"k">>
      [] OTHER                 -> <<>>

\* the bytes of a regular file
Content(n) ==
    CASE n = <<"/", "a", "k">>        -> <<1>>
      [] n = <<"/", "a", "c", "s.t">> -> <<3>>
      [] n = <<"/", "a", "c", "k">>   -> <<>>
      [] OTHER                        -> <<4>>

IsDir(p) == Abs(p) \in Nodes /\ Kind(Abs(p)) = "dir"

----------------------------------------------------------------------------
(* to_last_modified_time, main.rs 245-268 *)

DOS_EPOCH_OFFSET == 315576000
\* 60 * 60 * 24 * 365.2425
SecondsPerYear == 31556952
U16Max == 65535

Min(a, b) == IF a < b THEN a ELSE b

\* zip::DateTime::default()
DefaultDateTime ==
    [year |-> 1980, month |-> 1, day |-> 1, hour |-> 0, minute |-> 0, second |-> 0]

\* zip::DateTime::from_date_and_time(..).unwrap_or(zip::DateTime::default())
FromDateAndTime(y, mo, d, h, mi, s) ==
    IF /\ y >= 1980 /\ y <= 2107 /\ mo >= 1 /\ mo <= 12 /\ d >= 1 /\ d <= 31
       /\ h <= 23 /\ mi <= 59 /\ s <= 60
    THEN [year |-> y, month |-> mo, day |-> d, hour |-> h, minute |-> mi, second |-> s]
    ELSE DefaultDateTime

\* lines 257-265, from the elapsed seconds (whole seconds)
DateTimeOf(seconds) ==
    FromDateAndTime(1980 + Min(seconds \div SecondsPerYear, U16Max), 1, 1,
                    (seconds \div 3600) % 24, (seconds \div 60) % 60, seconds % 60)

\* path.metadata().and_then(|m| m.modified()): the path as given, so a relative
\* one is read under the working directory; the empty path cannot be read
ModifiedKnown(rel) == rel # <<>> /\ Abs(rel) \in Nodes

\* .unwrap_or(SystemTime::now())
SystemTimeOf(rel) == IF ModifiedKnown(rel) THEN mtime[Abs(rel)] ELSE now

\* duration_since(UNIX_EPOCH).map(|d| d.sub(OFFSET)).unwrap_or(ZERO):
\* a time before the Unix epoch is an Err and becomes zero; `sub` on a Duration
\* panics when the result would be negative
ElapsedPanics(t) == t >= 0 /\ t < DOS_EPOCH_OFFSET
Elapsed(t) == IF t < 0 THEN 0 ELSE t - DOS_EPOCH_OFFSET

to_last_modified_time(rel) ==
    LET t == SystemTimeOf(rel)
    IN  [panic |-> ElapsedPanics(t),
         time  |-> IF ElapsedPanics(t) THEN DefaultDateTime ELSE DateTimeOf(Elapsed(t))]

\* what the history keeps of one call
Stamp(rel) ==
    [t |-> SystemTimeOf(rel), panic |-> to_last_modified_time(rel).panic,
     time |-> to_last_modified_time(rel).time]

----------------------------------------------------------------------------
(* The inputs of a run *)

CandDirs == { <<"/", "a">>, <<"/", "a", "c">>, <<"/", "e">>, <<"D:", "x">> }

IgnoreLists == { <<>>, <<"*.t", "c">>, <<"a">> }

\* the archive epoch + 01:01:01, and 40 estimated years later + 02:02:02
Recent == DOS_EPOCH_OFFSET + 3661
NowTimes == { DOS_EPOCH_OFFSET + 40 * SecondsPerYear + 7322 }

\* working directory and the modification time of the nodes: a recent one, one
\* between the Unix epoch and the archive epoch, one before the Unix epoch
Envs == { [cwd |-> <<"/">>, t |-> Recent], [cwd |-> <<"/", "a">>, t |-> Recent],
          [cwd |-> <<"/", "a">>, t |-> 100], [cwd |-> <<"/", "a">>, t |-> 0 - 100] }

Init ==
    /\ directories \in UNION { [1 .. n -> CandDirs] : n \in 0 .. MaxDirs }
    /\ ignores \in IgnoreLists
    /\ \E env \in Envs : cwd = env.cwd /\ mtime = [n \in Nodes |-> env.t]
    /\ now \in NowTimes
    /\ pc = "load"
    /\ outFile = "untouched"
    /\ parent = <<>>
    /\ idx = 1
    /\ stack = <<>>
    /\ archive = <<>>
    /\ result = ""
    /\ log = <<>>
    /\ faults = 0
    /\ failures = {}
    /\ visits = <<>>
    /\ stamps = {}
    /\ abandoned = {}

----------------------------------------------------------------------------
(* Helpers of the actions *)

inputs == <<directories, ignores, cwd, mtime, now>>

Top == stack[Len(stack)]
Pop == SubSeq(stack, 1, Len(stack) - 1)

\* a call of compress_dir whose loop has no entry left returns Ok (line 206),
\* and so may then its caller
RECURSIVE Unwind(_)
Unwind(stk) ==
    IF stk # <<>> /\ stk[Len(stk)].entries = <<>>
    THEN Unwind(SubSeq(stk, 1, Len(stk) - 1))
    ELSE stk

\* an injected failure `f` uses up one of the MaxFaults
Inject(f) ==
    /\ f # "none" => faults < MaxFaults
    /\ faults' = IF f = "none" THEN faults ELSE faults + 1

Failed(op, path, w) == failures' = failures \cup {[op |-> op, path |-> path, walk |-> w]}

Line(what, path, err, w) == [what |-> what, path |-> path, err |-> err, walk |-> w]

\* the caller of compress_dir prints the error: archive() at 145-147 for a
\* configured directory, compress_dir at 193-195 for a sub-directory
DirLine(callers, dir, err, w) ==
    Line(IF callers = <<>> THEN "directory" ELSE "sub-directory", dir, err, w)

Call(fn, path, w) == visits' = Append(visits, [fn |-> fn, path |-> Abs(path), walk |-> w])

\* a panic unwinds out of main: the process aborts
Panic ==
    /\ pc' = "done"
    /\ result' = "Panic"
    /\ UNCHANGED <<stack, archive, log>>

Without(seq, k) == SubSeq(seq, 1, k - 1) \o SubSeq(seq, k + 1, Len(seq))

----------------------------------------------------------------------------
(* archive(), main.rs 101-160 *)

\* line 108: Profile::load(profile).map_err(FailedToLoad)?
LoadProfile ==
    /\ pc = "load"
    /\ \E f \in {"none", "load"} :
        /\ Inject(f)
        /\ IF f = "load"
           THEN /\ pc' = "done" /\ result' = "FailedToLoad"
                /\ Failed("load", <<>>, 0)
           ELSE /\ pc' = "create" /\ UNCHANGED <<result, failures>>
    /\ UNCHANGED <<inputs, outFile, parent, idx, stack, archive, log, visits, stamps, abandoned>>

\* line 113: File::create(file).map_err(FailedToCreateArchive)?
CreateArchive ==
    /\ pc = "create"
    /\ \E f \in {"none", "create"} :
        /\ Inject(f)
        /\ IF f = "create"
           THEN /\ pc' = "done" /\ result' = "FailedToCreateArchive"
                /\ Failed("create", <<>>, 0)
                /\ UNCHANGED outFile
           ELSE /\ pc' = "resolve" /\ outFile' = "created"
                /\ UNCHANGED <<result, failures>>
    /\ UNCHANGED <<inputs, parent, idx, stack, archive, log, visits, stamps, abandoned>>

\* lines 117-124: the shared parent path, or FailedToDetermineParentPath
ResolveParent ==
    /\ pc = "resolve"
    /\ IF SharedParent(directories).found
       THEN /\ pc' = "walk" /\ parent' = SharedParent(directories).path
            /\ UNCHANGED result
       ELSE /\ pc' = "done" /\ result' = "FailedToDetermineParentPath"
            /\ UNCHANGED parent
    /\ UNCHANGED <<inputs, outFile, idx, stack, archive, log, faults, failures, visits,
                   stamps, abandoned>>

\* lines 152-159: set_comment, finish
FinishArchive ==
    /\ pc = "walk" /\ stack = <<>> /\ idx > Len(directories)
    /\ \E f \in {"none", "finish"} :
        /\ Inject(f)
        /\ IF f = "finish"
           THEN /\ result' = "FailedToFinishArchive" /\ Failed("finish", <<>>, 0)
                /\ UNCHANGED outFile
           ELSE /\ result' = "Ok" /\ outFile' = "finished" /\ UNCHANGED failures
    /\ pc' = "done"
    /\ UNCHANGED <<inputs, parent, idx, stack, archive, log, visits, stamps, abandoned>>

----------------------------------------------------------------------------
(* compress_dir, main.rs 163-207 *)

DirEntry(dir, rel, w) ==
    [name |-> rel, kind |-> "dir", time |-> to_last_modified_time(rel).time,
     content |-> <<>>, src |-> Abs(dir), walk |-> w, call |-> Len(visits) + 1]

\* `?` at 172, 173 or 184: compress_dir returns the error and its caller prints it
DirReturnsErr(callers, dir, w, err, op) ==
    /\ stack' = Unwind(callers)
    /\ log' = Append(log, DirLine(callers, dir, err, w))
    /\ Failed(op, Abs(dir), w)
    /\ UNCHANGED <<pc, result, archive>>

\* The call compress_dir(writer, ctx, parent, dir) up to its loop, lines 168-184;
\* `callers` is the stack below it.  `prune` is the test of line 168, `mark` the
\* add_directory_from_path of lines 176-184.
CompressDirWith(prune, mark, callers, dir, w) ==
    LET sp   == StripPrefix(dir, parent)
        list == Listing(Abs(dir))
    IN  \E f \in {"none", "read_dir", "mark", "list"} : \E k \in 0 .. Len(list) :
            /\ (f = "list") <=> (k > 0)
            /\ Inject(f)
            /\ Call("compress_dir", dir, w)
            /\ IF prune /\ is_ignored(dir)
               THEN \* line 169: return Ok(())
                    /\ f = "none"
                    /\ stack' = Unwind(callers)
                    /\ UNCHANGED <<pc, result, archive, log, failures, stamps>>
               ELSE IF ~IsDir(dir) \/ f = "read_dir"
               THEN \* line 172: fs::read_dir fails
                    /\ IsDir(dir) <=> (f = "read_dir")
                    /\ DirReturnsErr(callers, dir, w, "FailedToReadDirectory", "read_dir")
                    /\ UNCHANGED stamps
               ELSE IF ~sp.ok
               THEN \* line 173
                    /\ f = "none"
                    /\ DirReturnsErr(callers, dir, w, "FailedToStripPrefix", "strip_prefix")
                    /\ UNCHANGED stamps
               ELSE /\ stamps' = stamps \cup {Stamp(sp.path)}
                    /\ IF to_last_modified_time(sp.path).panic
                       THEN \* line 182 -> 253: Duration::sub overflows
                            /\ f = "none"
                            /\ Panic
                            /\ Failed("timestamp", Abs(dir), w)
                       ELSE IF f = "mark"
                       THEN \* line 184
                            DirReturnsErr(callers, dir, w, "FailedToMarkEntry", "mark")
                       ELSE \* the entry is written; .flatten() drops a listing error
                            /\ archive' = IF mark THEN Append(archive, DirEntry(dir, sp.path, w))
                                          ELSE archive
                            /\ stack' = Unwind(Append(callers,
                                   [dir |-> dir, walk |-> w,
                                    entries |-> IF k > 0 THEN Without(list, k) ELSE list]))
                            /\ IF k > 0 THEN Failed("list", Abs(dir \o <<list[k]>>), w)
                               ELSE UNCHANGED failures
                            /\ UNCHANGED <<pc, result, log>>

\* compress_dir that walks an ignored directory all the same
CompressDirNoPrune(callers, dir, w) == CompressDirWith(FALSE, TRUE, callers, dir, w)

\* compress_dir that writes no entry for the directory itself
CompressDirNoEntry(callers, dir, w) == CompressDirWith(TRUE, FALSE, callers, dir, w)

compress_dir(callers, dir, w) == CompressDirWith(TRUE, TRUE, callers, dir, w)

\* archive(), lines 142-148: the next configured directory is handed to compress_dir
NextDirectory ==
    /\ pc = "walk" /\ stack = <<>> /\ idx <= Len(directories)
    /\ idx' = idx + 1
    /\ compress_dir(<<>>, directories[idx], idx)
    /\ UNCHANGED <<inputs, outFile, parent, abandoned>>

Child == Top.dir \o <<Head(Top.entries)>>

\* the loop of lines 188-204 is at its next entry
InLoop == pc = "walk" /\ stack # <<>>

\* the frame of the running call, its loop one entry further
Advance == [stack EXCEPT ![Len(stack)] = [@ EXCEPT !.entries = Tail(@)]]

\* line 191: entry.metadata().map_err(FailedToInspectPath)? leaves compress_dir
InspectFails ==
    /\ InLoop
    /\ Inject("metadata")
    /\ stack' = Unwind(Pop)
    /\ log' = Append(log, DirLine(Pop, Top.dir, "FailedToInspectPath", Top.walk))
    /\ Failed("metadata", Abs(Child), Top.walk)
    /\ abandoned' = abandoned \cup
           { [path |-> Abs(Top.dir \o <<Top.entries[i]>>), walk |-> Top.walk] :
                 i \in 2 .. Len(Top.entries) }
    /\ UNCHANGED <<inputs, pc, outFile, parent, idx, archive, result, visits, stamps>>

\* lines 192-196: the child is a directory
RecurseDir ==
    /\ InLoop
    /\ Kind(Abs(Child)) = "dir"
    /\ compress_dir(Advance, Child, Top.walk)
    /\ UNCHANGED <<inputs, outFile, parent, idx, abandoned>>

\* line 202: neither a directory nor a file
SkipOther ==
    /\ InLoop
    /\ Kind(Abs(Child)) = "other"
    /\ stack' = Unwind(Advance)
    /\ UNCHANGED <<inputs, pc, outFile, parent, idx, archive, result, log, faults, failures,
                   visits, stamps, abandoned>>

----------------------------------------------------------------------------
(* compress_file, main.rs 210-242, called at 197-201 *)

FileEntry(file, rel, bytes, w) ==
    [name |-> rel, kind |-> "file", time |-> to_last_modified_time(rel).time,
     content |-> bytes, src |-> Abs(file), walk |-> w, call |-> Len(visits) + 1]

\* lines 198-200: compress_dir prints the error and goes on with the next entry
FileReturnsErr(err, op) ==
    /\ stack' = Unwind(Advance)
    /\ log' = Append(log, Line("sub-file", Child, err, Top.walk))
    /\ Failed(op, Abs(Child), Top.walk)
    /\ UNCHANGED <<pc, result>>

\* the error leaves compress_dir as well, as `?` would make it
FileErrLeavesDir(err, op) ==
    /\ stack' = Unwind(Pop)
    /\ log' = Append(log, DirLine(Pop, Top.dir, err, Top.walk))
    /\ Failed(op, Abs(Child), Top.walk)
    /\ UNCHANGED <<pc, result>>

\* `caught` is the `if let Err(e)` of line 198
CompressFileWith(caught) ==
    /\ InLoop
    /\ Kind(Abs(Child)) = "file"
    /\ LET file  == Child
           w     == Top.walk
           sp    == StripPrefix(file, parent)
           bytes == Content(Abs(file))
       IN  \E f \in {"none", "open", "mark", "copy"} : \E n \in 0 .. Len(bytes) :
            /\ (f = "copy") <=> (n < Len(bytes))
            /\ Inject(f)
            /\ Call("compress_file", file, w)
            /\ IF is_ignored(file)
               THEN \* line 216
                    /\ f = "none"
                    /\ stack' = Unwind(Advance)
                    /\ UNCHANGED <<pc, result, archive, log, failures, stamps>>
               ELSE IF f = "open"
               THEN \* line 221
                    /\ IF caught THEN FileReturnsErr("FailedToReadFile", "open")
                       ELSE FileErrLeavesDir("FailedToReadFile", "open")
                    /\ UNCHANGED <<archive, stamps>>
               ELSE IF ~sp.ok
               THEN \* line 222
                    /\ f = "none"
                    /\ FileReturnsErr("FailedToStripPrefix", "strip_prefix")
                    /\ UNCHANGED <<archive, stamps>>
               ELSE /\ stamps' = stamps \cup {Stamp(sp.path)}
                    /\ IF to_last_modified_time(sp.path).panic
                       THEN \* line 235 -> 253
                            /\ f = "none"
                            /\ Panic
                            /\ Failed("timestamp", Abs(file), w)
                       ELSE IF f = "mark"
                       THEN \* line 237
                            /\ FileReturnsErr("FailedToMarkEntry", "mark")
                            /\ UNCHANGED archive
                       ELSE IF f = "copy"
                       THEN \* line 239: the entry was started, io::copy stops part-way
                            /\ archive' = Append(archive,
                                                 FileEntry(file, sp.path, SubSeq(bytes, 1, n), w))
                            /\ FileReturnsErr("FailedToCopyFile", "copy")
                       ELSE /\ archive' = Append(archive, FileEntry(file, sp.path, bytes, w))
                            /\ stack' = Unwind(Advance)
                            /\ UNCHANGED <<pc, result, log, failures>>
    /\ UNCHANGED <<inputs, outFile, parent, idx, abandoned>>

\* compress_file whose open error is not caught by the loop
CompressFileUncaught == CompressFileWith(FALSE)

CompressFile == CompressFileWith(TRUE)

----------------------------------------------------------------------------

Next ==
    \/ LoadProfile
    \/ CreateArchive
    \/ ResolveParent
    \/ NextDirectory
    \/ InspectFails
    \/ RecurseDir
    \/ CompressFile
    \/ SkipOther
    \/ FinishArchive

Spec == Init /\ [][Next]_vars

----------------------------------------------------------------------------
(* Vocabulary of the properties *)

Below(p, q) == StartsWith(p, q)
StrictlyBelow(p, q) == StartsWith(p, q) /\ p # q
ParentOf(p) == Prefix(p, Len(p) - 1)

AbsDir(i) == Abs(directories[i])

\* the configured directories neither repeat nor contain one another
NonOverlapping ==
    \A i, j \in 1 .. Len(directories) : i # j => ~Below(AbsDir(i), AbsDir(j))

\* the nodes of the configured trees
Tree == {n \in Nodes : \E i \in 1 .. Len(directories) : Below(n, AbsDir(i))}
TreeFiles == {n \in Tree : Kind(n) = "file"}
TreeSubDirs ==
    {n \in Tree : Kind(n) = "dir" /\ \E i \in 1 .. Len(directories) : StrictlyBelow(n, AbsDir(i))}

EntriesOf(kind) == {i \in 1 .. Len(archive) : archive[i].kind = kind}
EntriesFor(kind, src) == {i \in EntriesOf(kind) : archive[i].src = src}

\* the longest sequence of components every configured directory starts with
CommonPrefixLen ==
    Cardinality({n \in 1 .. Len(directories[1]) :
                    \A j \in 1 .. Len(directories) :
                        /\ Len(directories[j]) >= n
                        /\ Prefix(directories[j], n) = Prefix(directories[1], n)})
CommonPrefix == Prefix(directories[1], CommonPrefixLen)

Finished == pc = "done" /\ result = "Ok"

----------------------------------------------------------------------------
(* C1: the round trip *)

\* nothing of the configured trees is ignored and nothing failed
CleanRun == Finished /\ failures = {} /\ \A n \in Tree : ~is_ignored(n)

RoundTrip ==
    /\ Cardinality(EntriesOf("file")) = Cardinality(TreeFiles)
    /\ Cardinality(EntriesOf("dir")) = Cardinality(TreeSubDirs) + Len(directories)
    /\ \A n \in TreeFiles : Cardinality(EntriesFor("file", n)) = 1
    /\ \A n \in TreeSubDirs : Cardinality(EntriesFor("dir", n)) >= 1
    /\ \A i \in 1 .. Len(archive) :
        /\ CommonPrefix \o archive[i].name = archive[i].src
        /\ archive[i].kind = "file" => archive[i].content = Content(archive[i].src)

\* C1 as claimed: for every source tree and profile in which no entry is ignored
\* and no per-entry operation fails, the archive holds exactly one file entry per
\* regular file and one directory entry per sub-directory plus one per configured
\* directory, each named by its source path without the common root, each file
\* entry with the content of its file.
C1_AsClaimed == CleanRun => RoundTrip

\* C1 amended: the same, for profiles whose configured directories neither repeat
\* nor contain one another.
C1_RoundTrip == (CleanRun /\ NonOverlapping) => RoundTrip

C1_Witness ==
    /\ CleanRun /\ NonOverlapping
    /\ Len(directories) = 2
    /\ Cardinality(EntriesOf("file")) >= 3
    /\ TreeSubDirs # {}

----------------------------------------------------------------------------
(* C2: an ignored directory *)

\* the calls of compress_dir with a directory whose base name is ignored
IgnoredDirCalls == {i \in 1 .. Len(visits) : visits[i].fn = "compress_dir" /\ is_ignored(visits[i].path)}

ReturnedOk(v) == ~\E x \in failures : x.path = v.path /\ x.walk = v.walk

\* C2 as claimed: for every directory, configured or discovered, whose base name
\* matches an ignore pattern, compress_dir returns success without writing
\* anything: the archive has no entry for it and none for any descendant, and no
\* descendant is tested.
C2_AsClaimed ==
    (pc = "done" /\ failures = {}) =>
    \A i \in IgnoredDirCalls :
        /\ ReturnedOk(visits[i])
        /\ \A j \in 1 .. Len(archive) : ~Below(archive[j].src, visits[i].path)
        /\ \A j \in 1 .. Len(visits) : ~StrictlyBelow(visits[j].path, visits[i].path)

\* a walk other than the one that met the ignored directory `p`, started at a
\* configured directory inside `p`
OwnWalkInside(w, p) == w \in 1 .. Len(directories) /\ StrictlyBelow(AbsDir(w), p)

\* C2 amended: compress_dir returns success without writing anything and without
\* testing a descendant; the archive has no entry for the ignored directory, and
\* entries (and tests) of its descendants come only from the walk of a configured
\* directory that itself lies inside the ignored one.
C2_Pruned ==
    \A i \in IgnoredDirCalls :
        /\ ReturnedOk(visits[i])
        /\ \A j \in 1 .. Len(archive) :
              /\ archive[j].src # visits[i].path
              /\ Below(archive[j].src, visits[i].path)
                    => OwnWalkInside(archive[j].walk, visits[i].path)
        /\ \A j \in 1 .. Len(visits) :
              StrictlyBelow(visits[j].path, visits[i].path)
                    => OwnWalkInside(visits[j].walk, visits[i].path)

C2_Witness ==
    /\ Finished
    /\ archive # <<>>
    /\ \E i \in IgnoredDirCalls :
          /\ Listing(visits[i].path) # <<>>
          /\ visits[i].path # AbsDir(visits[i].walk)

----------------------------------------------------------------------------
(* C3: the shared parent path *)

PastResolve ==
    /\ pc \notin {"load", "create", "resolve"}
    /\ result \notin {"FailedToLoad", "FailedToCreateArchive"}

NotFound == result = "FailedToDetermineParentPath"

\* the directories share no named directory: at most a root
OnlyRootShared == directories # <<>> /\ \A k \in 1 .. CommonPrefixLen : CommonPrefix[k] \in RootComps

\* not even a root is shared, and no directory is relative
NothingShared ==
    directories # <<>> /\ CommonPrefixLen = 0 /\ \A j \in 1 .. Len(directories) : Rooted(directories[j])

NothingWalked == visits = <<>> /\ archive = <<>> /\ parent = <<>> /\ idx = 1

\* C3 as claimed: the resolution fails with NotFound whenever the directories are
\* a disjoint set such as /a/x and /b/y, and when the sequence is empty; then no
\* common root is returned and no directory is walked.
C3_AsClaimed ==
    (PastResolve /\ (directories = <<>> \/ OnlyRootShared)) => (NotFound /\ NothingWalked)

\* C3 amended: the resolution fails with NotFound exactly when the sequence is
\* empty or the directories are all absolute and share not even a root; then
\* nothing is walked.  Directories that share only the root resolve to the root.
C3_NotFound ==
    PastResolve =>
        /\ NotFound <=> (directories = <<>> \/ NothingShared)
        /\ NotFound => NothingWalked
        /\ ~NotFound => parent = CommonPrefix

C3_Witness == NotFound /\ Len(directories) = 2 /\ directories[1] # directories[2]

----------------------------------------------------------------------------
(* C4: a file that cannot be opened *)

OpenFailures == {x \in failures : x.op = "open"}

\* the regular files listed next to `f`
SiblingFiles(f) ==
    {ParentOf(f) \o <<Listing(ParentOf(f))[k]>> : k \in 1 .. Len(Listing(ParentOf(f)))}
        \cap {n \in Nodes : Kind(n) = "file" /\ n # f}

\* `g` was processed in walk `w` and nothing about it failed
ProcessedWell(g, w) ==
    /\ ~is_ignored(g)
    /\ ~\E x \in failures : x.path = g /\ x.walk = w
    /\ [path |-> g, walk |-> w] \notin abandoned

\* C4: when File::open fails for a listed file, the error is printed and goes no
\* further: the archive keeps the entry of the enclosing directory and gets an
\* entry for every non-ignored sibling file processed without failure, every
\* configured directory is still walked, and the run ends in success (unless
\* the run is aborted by a panic or finish() itself fails).
C4_OpenFailureIsolated ==
    \A x \in OpenFailures :
        /\ \E i \in EntriesFor("dir", ParentOf(x.path)) : archive[i].walk = x.walk
        /\ \E i \in 1 .. Len(log) :
              log[i] = Line("sub-file", x.path, "FailedToReadFile", x.walk)
        /\ result \in {"", "Ok", "FailedToFinishArchive", "Panic"}
        /\ (pc = "done" /\ result # "Panic") =>
              /\ \A k \in 1 .. Len(directories) : \E j \in 1 .. Len(visits) : visits[j].walk = k
              /\ (\A y \in failures : y.op # "finish") => result = "Ok"
              /\ \A g \in SiblingFiles(x.path) :
                    ProcessedWell(g, x.walk) =>
                        \E i \in EntriesFor("file", g) :
                            archive[i].walk = x.walk /\ archive[i].content = Content(g)

C4_Witness ==
    /\ Finished
    /\ Len(directories) = 2
    /\ \E x \in OpenFailures :
        /\ x.walk = 1
        /\ \E g \in SiblingFiles(x.path) : ProcessedWell(g, 1) /\ EntriesFor("file", g) # {}
    /\ \E i \in 1 .. Len(archive) : archive[i].walk = 2

----------------------------------------------------------------------------
(* C5: where the timestamp of an entry comes from *)

\* the estimate for a modification time `t`
EstimateOf(t) == DateTimeOf(Elapsed(t))

\* C5 as claimed: the timestamp of an entry depends on the wall clock only when
\* the modification time of its source path cannot be read; when it can, the
\* timestamp is derived from it.  (Every node of the source tree has a readable
\* modification time.)
C5_AsClaimed ==
    failures = {} =>
    \A i \in 1 .. Len(archive) :
        archive[i].src \in Nodes => archive[i].time = EstimateOf(mtime[archive[i].src])

----------------------------------------------------------------------------
(* C6: times before the archive epoch *)

\* C6 as claimed: for a modification time before the archive epoch, between the
\* Unix epoch and the archive epoch or before the Unix epoch,
\* to_last_modified_time returns 1980-01-01 00:00:00 and does not abort the run.
C6_AsClaimed ==
    /\ \A s \in stamps : s.t < DOS_EPOCH_OFFSET => (~s.panic /\ s.time = DefaultDateTime)
    /\ result # "Panic"

----------------------------------------------------------------------------
(* C7: a child whose metadata cannot be read *)

\* C7 as claimed: when metadata() fails for a listed child only that child is
\* skipped: the remaining children are processed and the walk of the enclosing
\* directory does not fail.
C7_AsClaimed ==
    /\ abandoned = {}
    /\ \A i \in 1 .. Len(log) : log[i].err # "FailedToInspectPath"

----------------------------------------------------------------------------
(* C8: the output file and the shared parent path *)

\* C8 as claimed: a run that ends with FailedToDetermineParentPath has not
\* created, truncated or written the output file.
C8_AsClaimed == NotFound => outFile = "untouched"

----------------------------------------------------------------------------
(* C9: pre-order *)

\* each walk is over before the next begins: whatever a walk wrote was written
\* before any call of a later walk
WalksInTurn ==
    /\ \A j \in 1 .. Len(visits) - 1 : visits[j].walk <= visits[j + 1].walk
    /\ \A i \in 1 .. Len(archive) - 1 : archive[i].call <= archive[i + 1].call
    /\ \A i \in 1 .. Len(archive) :
          /\ archive[i].call \in 1 .. Len(visits)
          /\ visits[archive[i].call].walk = archive[i].walk

\* C9 as claimed: for every profile, nested or repeated directories included, the
\* entry of a directory is written before the entry of any of its descendants,
\* and the walks of the configured directories follow one another.
C9_AsClaimed ==
    failures = {} =>
    /\ WalksInTurn
    /\ \A i, j \in 1 .. Len(archive) :
          (archive[i].kind = "dir" /\ StrictlyBelow(archive[j].src, archive[i].src))
              => \E h \in 1 .. j - 1 : archive[h].kind = "dir" /\ archive[h].src = archive[i].src

\* C9 amended: within the walk of one configured directory the entry of a
\* directory is written before the entries that walk writes for its descendants,
\* and the walks follow one another.
C9_PreOrder ==
    /\ WalksInTurn
    /\ \A j \in 1 .. Len(archive) :
          \A n \in Len(AbsDir(archive[j].walk)) .. Len(archive[j].src) - 1 :
              \E h \in 1 .. j - 1 :
                  /\ archive[h].kind = "dir"
                  /\ archive[h].walk = archive[j].walk
                  /\ archive[h].src = Prefix(archive[j].src, n)

C9_Witness ==
    /\ Finished
    /\ Len(directories) = 2
    /\ StrictlyBelow(AbsDir(1), AbsDir(2))
    /\ \E i, j \in 1 .. Len(archive) :
          /\ archive[i].walk = 1 /\ archive[j].walk = 2
          /\ archive[j].kind = "file"

----------------------------------------------------------------------------
(* C10: write-once *)

NoRepeat ==
    /\ \A i, j \in 1 .. Len(visits) : i # j => visits[i].path # visits[j].path
    /\ \A i, j \in 1 .. Len(archive) : i # j => archive[i].name # archive[j].name

\* C10 as claimed: for every profile, overlapping, nested and repeated
\* directories included, no source path is visited twice and no two entries of
\* the archive have the same relative path.
C10_AsClaimed == (failures = {} /\ ignores = <<>>) => NoRepeat

\* C10 amended: the same, for profiles whose configured directories neither
\* repeat nor contain one another.
C10_WriteOnce == NonOverlapping => NoRepeat

C10_Witness ==
    /\ Finished /\ NonOverlapping
    /\ Len(directories) = 2
    /\ \E i, j \in 1 .. Len(archive) :
          archive[i].walk = 1 /\ archive[j].walk = 2 /\ archive[i].kind = "file" /\ archive[j].kind = "file"

====
